---- MODULE Spec2Model ----
(***************************************************************************)
(* Model of the two vendored Boost routines of the repository:             *)
(*   - boost/beast/websocket/detail/hybi13.ipp                             *)
(*       make_sec_ws_key, make_sec_ws_accept (RFC 6455 handshake tokens)   *)
(*   - boost/histogram/algorithm/project.hpp                               *)
(*       project (histogram axis projection)                               *)
(*                                                                         *)
(* Texts and byte buffers are sequences of octets (0..255); a character is *)
(* its ASCII code.  A 32-bit word is a pair <<hi, lo>> of 16-bit halves,   *)
(* so that every operation keeps its 32-bit width.                         *)
(***************************************************************************)
EXTENDS Integers, Sequences, FiniteSets, TLC

(***************************************************************************)
(* 32-bit words                                                            *)
(***************************************************************************)
H16 == 2 ^ 16

Byte == 0 .. 255

RECURSIVE BitOp(_, _, _, _)
\* bitwise combination of two n-bit numbers by the truth table f
BitOp(f, x, y, n) ==
    IF n = 0 THEN 0
    ELSE f[x % 2][y % 2] + (2 * BitOp(f, x \div 2, y \div 2, n - 1))

XorBit == [a \in 0 .. 1 |-> [b \in 0 .. 1 |-> (a + b) % 2]]
AndBit == [a \in 0 .. 1 |-> [b \in 0 .. 1 |-> a * b]]
OrBit  == [a \in 0 .. 1 |-> [b \in 0 .. 1 |-> a + b - a * b]]

\* byte-wide tables, evaluated once
XorByte == [a \in Byte |-> [b \in Byte |-> BitOp(XorBit, a, b, 8)]]
AndByte == [a \in Byte |-> [b \in Byte |-> BitOp(AndBit, a, b, 8)]]
OrByte  == [a \in Byte |-> [b \in Byte |-> BitOp(OrBit, a, b, 8)]]

Op16(T, x, y) == (T[x \div 256][y \div 256] * 256) + T[x % 256][y % 256]

Xor32(x, y) == <<Op16(XorByte, x[1], y[1]), Op16(XorByte, x[2], y[2])>>
And32(x, y) == <<Op16(AndByte, x[1], y[1]), Op16(AndByte, x[2], y[2])>>
Or32(x, y)  == <<Op16(OrByte, x[1], y[1]), Op16(OrByte, x[2], y[2])>>
Not32(x)    == <<H16 - 1 - x[1], H16 - 1 - x[2]>>

\* x + y mod 2^32
Add32(x, y) ==
    LET lo == x[2] + y[2]
        hi == x[1] + y[1] + (lo \div H16)
    IN  <<hi % H16, lo % H16>>

\* rotate left by n, 0 < n < 16
RotlSmall(x, n) ==
    <<((x[1] * (2 ^ n)) % H16) + (x[2] \div (2 ^ (16 - n))),
      ((x[2] * (2 ^ n)) % H16) + (x[1] \div (2 ^ (16 - n)))>>

\* rotate left by n, 0 < n < 32, n # 16
Rotl32(x, n) == IF n < 16 THEN RotlSmall(x, n) ELSE RotlSmall(<<x[2], x[1]>>, n - 16)

\* x >> n for 0 <= n < 32
Shr32(x, n) ==
    IF n >= 16 THEN <<0, x[1] \div (2 ^ (n - 16))>>
    ELSE <<x[1] \div (2 ^ n),
           (x[2] \div (2 ^ n)) + ((x[1] % (2 ^ n)) * (2 ^ (16 - n)))>>

\* the four octets of a word, most significant first
WordBytes(x) == <<x[1] \div 256, x[1] % 256, x[2] \div 256, x[2] % 256>>

\* the word whose octets, most significant first, are b[i+1 .. i+4]
BytesWord(b, i) == <<(b[i + 1] * 256) + b[i + 2], (b[i + 3] * 256) + b[i + 4]>>

(***************************************************************************)
(* SHA-1 (beast::detail::sha1_context, init / update / finish): FIPS 180-1 *)
(***************************************************************************)
sha1_block_size == 64

sha1_H0 == << <<26437, 8961>>, <<61389, 43913>>, <<39098, 56574>>,
              <<4146, 21622>>, <<50130, 57840>> >>

sha1_K(t) ==
    IF t < 20 THEN <<23170, 31129>>
    ELSE IF t < 40 THEN <<28377, 60321>>
    ELSE IF t < 60 THEN <<36635, 48348>>
    ELSE <<51810, 49622>>

sha1_F(t, b, c, d) ==
    IF t < 20 THEN Or32(And32(b, c), And32(Not32(b), d))
    ELSE IF t < 40 THEN Xor32(Xor32(b, c), d)
    ELSE IF t < 60 THEN Or32(Or32(And32(b, c), And32(b, d)), And32(c, d))
    ELSE Xor32(Xor32(b, c), d)

RECURSIVE sha1_schedule(_)
\* the 80-word message schedule grown from the 16 words of a block
sha1_schedule(w) ==
    IF Len(w) = 80 THEN w
    ELSE LET t == Len(w) + 1
             x == Xor32(Xor32(w[t - 3], w[t - 8]), Xor32(w[t - 14], w[t - 16]))
         IN  sha1_schedule(Append(w, Rotl32(x, 1)))

RECURSIVE sha1_rounds(_, _, _)
\* rounds t .. 79 on the five working variables s = <<a, b, c, d, e>>
sha1_rounds(w, s, t) ==
    IF t = 80 \/ Len(s) # 5 THEN s
    ELSE LET tmp == Add32(Add32(Add32(Rotl32(s[1], 5), sha1_F(t, s[2], s[3], s[4])),
                                Add32(s[5], sha1_K(t))), w[t + 1])
         IN  sha1_rounds(w, <<tmp, s[1], Rotl32(s[2], 30), s[3], s[4]>>, t + 1)

\* one 64-octet block folded into the chaining value h
sha1_transform(h, block) ==
    LET w == sha1_schedule([i \in 1 .. 16 |-> BytesWord(block, 4 * (i - 1))])
        s == sha1_rounds(w, h, 0)
    IN  [i \in 1 .. 5 |-> Add32(h[i], s[i])]

sha1_init == [h |-> sha1_H0, buf |-> <<>>, len |-> 0]

RECURSIVE sha1_drain(_)
\* consume the complete blocks buffered in the context
sha1_drain(ctx) ==
    IF Len(ctx.buf) < sha1_block_size THEN ctx
    ELSE sha1_drain([ctx EXCEPT
            !.h = sha1_transform(ctx.h, SubSeq(ctx.buf, 1, sha1_block_size)),
            !.buf = SubSeq(ctx.buf, sha1_block_size + 1, Len(ctx.buf))])

sha1_update(ctx, data) ==
    sha1_drain([ctx EXCEPT !.buf = ctx.buf \o data, !.len = ctx.len + Len(data)])

Zeros(n) == [i \in 1 .. n |-> 0]

\* padding: 0x80, zeros up to 56 mod 64, the bit length as 64 bits big-endian
sha1_finish(ctx) ==
    LET r == (Len(ctx.buf) + 1) % sha1_block_size
        z == IF r <= 56 THEN 56 - r ELSE 120 - r
        bits == <<0, 0, 0, 0>> \o WordBytes(<<(ctx.len * 8) \div H16, (ctx.len * 8) % H16>>)
        last == sha1_drain([ctx EXCEPT !.buf = ctx.buf \o <<128>> \o Zeros(z) \o bits])
    IN  WordBytes(last.h[1]) \o WordBytes(last.h[2]) \o WordBytes(last.h[3])
        \o WordBytes(last.h[4]) \o WordBytes(last.h[5])

(***************************************************************************)
(* Base64 (beast::detail::base64): RFC 4648 alphabet with '=' padding      *)
(***************************************************************************)
base64_alphabet ==
    [i \in 1 .. 64 |->
        IF i <= 26 THEN 64 + i
        ELSE IF i <= 52 THEN 70 + i
        ELSE IF i <= 62 THEN i - 5
        ELSE IF i = 63 THEN 43 ELSE 47]

base64_pad == 61

encoded_size(n) == 4 * ((n + 2) \div 3)

RECURSIVE base64_encode(_)
base64_encode(src) ==
    IF Len(src) = 0 THEN <<>>
    ELSE IF Len(src) >= 3 THEN
        <<base64_alphabet[(src[1] \div 4) + 1],
          base64_alphabet[((src[1] % 4) * 16) + (src[2] \div 16) + 1],
          base64_alphabet[((src[2] % 16) * 4) + (src[3] \div 64) + 1],
          base64_alphabet[(src[3] % 64) + 1]>>
        \o base64_encode(SubSeq(src, 4, Len(src)))
    ELSE IF Len(src) = 2 THEN
        <<base64_alphabet[(src[1] \div 4) + 1],
          base64_alphabet[((src[1] % 4) * 16) + (src[2] \div 16) + 1],
          base64_alphabet[((src[2] % 16) * 4) + 1],
          base64_pad>>
    ELSE
        <<base64_alphabet[(src[1] \div 4) + 1],
          base64_alphabet[((src[1] % 4) * 16) + 1],
          base64_pad, base64_pad>>

\* base64::encode(dest, src, len): the characters written at the start of
\* dest, and their number, which is the value returned
base64_encode_into(dest, src) ==
    LET enc == base64_encode(src)
    IN  [n |-> Len(enc),
         data |-> [i \in 1 .. (IF Len(dest) > Len(enc) THEN Len(dest) ELSE Len(enc)) |->
                      IF i <= Len(enc) THEN enc[i] ELSE dest[i]]]

\* the value of a base64 character, 64 for a character outside the alphabet
base64_value(ch) ==
    IF \E i \in 1 .. 64 : base64_alphabet[i] = ch
    THEN (CHOOSE i \in 1 .. 64 : base64_alphabet[i] = ch) - 1
    ELSE 64

RECURSIVE base64_decode(_)
\* base64::decode: the octets of a padded base64 text, or <<-1>> on a
\* text that is not one
base64_decode(txt) ==
    IF Len(txt) = 0 THEN <<>>
    ELSE IF Len(txt) < 4 THEN <<-1>>
    ELSE LET v == [i \in 1 .. 4 |-> base64_value(txt[i])]
             last == Len(txt) = 4
             rest == base64_decode(SubSeq(txt, 5, Len(txt)))
             b1 == (v[1] * 4) + (v[2] \div 16)
             b2 == ((v[2] % 16) * 16) + (v[3] \div 4)
             b3 == ((v[3] % 4) * 64) + v[4]
         IN  IF v[1] = 64 \/ v[2] = 64 THEN <<-1>>
             ELSE IF last /\ txt[3] = base64_pad /\ txt[4] = base64_pad THEN
                 IF v[2] % 16 = 0 THEN <<b1>> ELSE <<-1>>
             ELSE IF last /\ txt[4] = base64_pad /\ v[3] # 64 THEN
                 IF v[3] % 4 = 0 THEN <<b1, b2>> ELSE <<-1>>
             ELSE IF v[3] = 64 \/ v[4] = 64 \/ rest = <<-1>> THEN <<-1>>
             ELSE <<b1, b2, b3>> \o rest

(***************************************************************************)
(* static_string<N>: a text of at most N characters in a fixed buffer      *)
(***************************************************************************)
\* what a build may do when a text outgrows its fixed buffer
OverflowOutcomes == {"length_error", "truncate", "overrun"}

\* the text cur of a static_string<cap> extended by s
static_string_append(cap, cur, s, ub) ==
    IF Len(cur) + Len(s) <= cap
    THEN [st |-> "ok", val |-> cur \o s, overrun |-> FALSE]
    ELSE IF ub = "length_error"
    THEN [st |-> "length_error", val |-> cur, overrun |-> FALSE]
    ELSE IF ub = "truncate"
    THEN [st |-> "ok", val |-> SubSeq(cur \o s, 1, cap), overrun |-> FALSE]
    ELSE [st |-> "ok", val |-> cur \o s, overrun |-> TRUE]

\* static_string::resize(n): cut, or extend with CharT{}
static_string_resize(s, n) ==
    IF n <= Len(s) THEN SubSeq(s, 1, n) ELSE s \o Zeros(n - Len(s))

(***************************************************************************)
(* hybi13: the handshake tokens                                            *)
(***************************************************************************)
\* sec_ws_key_type::max_size_n and sec_ws_accept_type's capacity
key_max_size_n == encoded_size(16)

digest_size == 20

accept_max_size == encoded_size(digest_size)

GUID == <<50, 53, 56, 69, 65, 70, 65, 53, 45, 69, 57, 49, 52, 45, 52, 55, 68, 65,
          45, 57, 53, 67, 65, 45, 67, 53, 65, 66, 48, 68, 67, 56, 53, 66, 49, 49>>

\* "dGhlIHNhbXBsZSBub25jZQ=="
RfcKey == <<100, 71, 104, 108, 73, 72, 78, 104, 98, 88, 66, 115, 90, 83, 66, 117,
            98, 50, 53, 106, 90, 81, 61, 61>>

\* "s3pPLMBiTxaQ9kYGzzhZRbK+xOo="
RfcAccept == <<115, 51, 112, 80, 76, 77, 66, 105, 84, 120, 97, 81, 57, 107, 89, 71,
               122, 122, 104, 90, 82, 98, 75, 43, 120, 79, 111, 61>>

Fill(ch, n) == [i \in 1 .. n |-> ch]

\* key texts offered to make_sec_ws_accept: the RFC 6455 example; texts of
\* 'A' of length 0, 1, one more than max_size_n and one more than the
\* capacity of m; and a text of '!', which is no base64, of length max_size_n
Keys ==
    {RfcKey, Fill(33, key_max_size_n)}
    \cup {Fill(65, n) : n \in {0, 1, key_max_size_n + 1, key_max_size_n + 36 + 1}}

\* static_string<sec_ws_key_type::max_size_n + 36>
m_capacityNoGuid == key_max_size_n

m_capacity == key_max_size_n + 36

\* BOOST_ASSERT(key.size() <= max_size_n): passes, or is compiled out (NDEBUG)
key_assert(key, ndebug) == ndebug \/ Len(key) <= key_max_size_n

\* static_string<...> m(key)
m_construct(key, ub) == static_string_append(m_capacity, <<>>, key, ub)

m_prepend_guid(m, ub) == static_string_append(m_capacity, GUID, m, ub)

\* m.append("258EAFA5-E914-47DA-95CA-C5AB0DC85B11")
m_append_guid(m, ub) == static_string_append(m_capacity, m, GUID, ub)

\* init(ctx); update(ctx, m.data(), m.size()); finish(ctx, &digest[0])
sha1_digest(m) == sha1_finish(sha1_update(sha1_init, m))

\* the buffers m that the offered keys lead to
ReachableM ==
    LET built(k, ub) ==
            LET c == m_construct(k, ub)
            IN  IF c.st = "ok" THEN m_append_guid(c.val, ub) ELSE c
    IN  {r.val : r \in {x \in {built(k, ub) : k \in Keys, ub \in OverflowOutcomes} :
                          x.st = "ok"}}

\* their digests, computed once
DigestTable == [m \in ReachableM |-> sha1_digest(m)]

digest_of(m) == IF m \in ReachableM THEN DigestTable[m] ELSE sha1_digest(m)

\* accept.resize(accept.max_size()); base64::encode(accept.data(), ...)
accept_write(accept, digest) ==
    base64_encode_into(static_string_resize(accept, accept_max_size),
                       SubSeq(digest, 1, digest_size))

\* the same with 16 for sizeof(digest)
accept_encode16(accept, digest) ==
    LET e == base64_encode_into(static_string_resize(accept, accept_max_size),
                                SubSeq(digest, 1, 16))
    IN  static_string_resize(e.data, e.n)

\* the same without the first resize: the characters beyond the old size
\* are the CharT{} that the last resize puts there
accept_encode_noresize(accept, digest) ==
    LET e == base64_encode_into(accept, SubSeq(digest, 1, digest_size))
    IN  static_string_resize(SubSeq(e.data, 1, Len(accept)), e.n)

\* accept.resize(accept.max_size());
\* accept.resize(base64::encode(accept.data(), &digest[0], sizeof(digest)))
accept_encode(accept, digest) ==
    LET e == accept_write(accept, digest)
    IN  static_string_resize(e.data, e.n)

\* make_sec_ws_accept(accept, key) in a build with or without NDEBUG, where
\* an overflowing static_string does ub
make_sec_ws_accept(accept, key, ndebug, ub) ==
    LET failed(why) == [outcome |-> why, accept |-> accept, m |-> <<>>,
                        overrun |-> FALSE]
        c == m_construct(key, ub)
        a == m_append_guid(c.val, ub)
    IN  IF ~key_assert(key, ndebug) THEN failed("assert_abort")
        ELSE IF c.st # "ok" THEN failed(c.st)
        ELSE IF a.st # "ok" THEN failed(a.st)
        ELSE [outcome |-> "ok",
              accept |-> accept_encode(accept, digest_of(a.val)),
              m |-> a.val,
              overrun |-> c.overrun \/ a.overrun]

\* the generator's 32-bit values offered to make_sec_ws_key
RngValues == {<<0, 0>>, <<65535, 65535>>, <<258, 772>>, <<32768, 255>>}

\* v & 0xff
low_octet(v) == And32(v, <<0, 255>>)[2]

be_bytes(v) ==
    <<low_octet(Shr32(v, 24)), low_octet(Shr32(v, 16)),
      low_octet(Shr32(v, 8)), low_octet(v)>>

\* a[i] = v & 0xff; a[i+1] = (v >> 8) & 0xff; a[i+2] = (v >> 16) & 0xff;
\* a[i+3] = (v >> 24) & 0xff
le_bytes(v) ==
    <<low_octet(v), low_octet(Shr32(v, 8)),
      low_octet(Shr32(v, 16)), low_octet(Shr32(v, 24))>>

RECURSIVE key_loop(_, _, _, _)
\* for(int i = 0; i < 16; i += 4) { auto const v = g(); ... }, where g[n + 1]
\* is what the generator returns after n calls; a holds a[0 .. i-1]
key_loop(i, a, n, g) ==
    IF i < 16 THEN key_loop(i + 4, a \o le_bytes(g[n + 1]), n + 1, g)
    ELSE [a |-> a, drawn |-> n]

key_encode_noresize(key, a) ==
    LET e == base64_encode_into(key, SubSeq(a, 1, 16))
    IN  static_string_resize(SubSeq(e.data, 1, Len(key)), e.n)

\* key.resize(key.max_size());
\* key.resize(base64::encode(key.data(), &a[0], 16))
key_encode(key, a) ==
    LET e == base64_encode_into(static_string_resize(key, key_max_size_n),
                                SubSeq(a, 1, 16))
    IN  static_string_resize(e.data, e.n)

make_sec_ws_key(key, g) ==
    LET l == key_loop(0, <<>>, 0, g)
    IN  [key |-> key_encode(key, l.a), a |-> l.a, drawn |-> l.drawn]

(***************************************************************************)
(* histogram: axes, and one counter per cell; an axis has size bins,       *)
(* indexed 0 .. size-1, an underflow cell -1 and an overflow cell size     *)
(* when it has them                                                        *)
(***************************************************************************)
AxisFirst(ax) == IF ax.uflow THEN -1 ELSE 0

AxisExtent(ax) == ax.size + (IF ax.uflow THEN 1 ELSE 0) + (IF ax.oflow THEN 1 ELSE 0)

AxisIndices(ax) == AxisFirst(ax) .. (AxisFirst(ax) + AxisExtent(ax) - 1)

\* the index tuples of the cells of a histogram with these axes
CellIndices(axes) ==
    {idx \in [1 .. Len(axes) -> UNION {AxisIndices(axes[k]) : k \in 1 .. Len(axes)}] :
        \A k \in 1 .. Len(axes) : idx[k] \in AxisIndices(axes[k])}

RECURSIVE CellCount(_)
CellCount(axes) ==
    IF Len(axes) = 0 THEN 1 ELSE AxisExtent(axes[1]) * CellCount(Tail(axes))

RECURSIVE CellAt(_, _)
\* the i-th cell (from 0) in storage order, the first axis running fastest
CellAt(axes, i) ==
    IF Len(axes) = 0 THEN <<>>
    ELSE <<AxisFirst(axes[1]) + (i % AxisExtent(axes[1]))>>
         \o CellAt(Tail(axes), i \div AxisExtent(axes[1]))

\* detail::make_default(storage): every cell zero
make_default_cells(axes) == [idx \in CellIndices(axes) |-> 0]

(***************************************************************************)
(* algorithm::project                                                      *)
(***************************************************************************)
seen_keep(seen, d) == seen

\* seen[d] = true
seen_mark(seen, d) == [seen EXCEPT ![d] = TRUE]

RECURSIVE unique_loop(_, _, _, _, _)
\* for (auto d : c) { if (seen[d]) throw ...; seen[d] = true;
\*                    axes.emplace_back(old_axes[d]); }   from position j on
unique_loop(old_axes, c, j, seen, axes) ==
    IF j > Len(c) THEN [outcome |-> "ok", axes |-> axes, at |-> 0]
    ELSE IF seen[c[j]] THEN [outcome |-> "invalid_argument", axes |-> <<>>, at |-> j]
    ELSE unique_loop(old_axes, c, j + 1, seen_mark(seen, c[j]),
                     Append(axes, old_axes[c[j] + 1]))

cell_assign(old, v) == v

\* result.at(idx) += *x
cell_add(old, v) == old + v

RECURSIVE sum_loop(_, _, _, _)
\* for (auto x : indexed(h, coverage::all)) { idx[..] = x.index(d) for d in c;
\*                                            result.at(idx) += *x; }
\* from the i-th cell on
sum_loop(h, c, i, cells) ==
    IF i = CellCount(h.axes) \/ DOMAIN cells = {} THEN cells
    ELSE LET x == CellAt(h.axes, i)
             idx == [j \in 1 .. Len(c) |-> x[c[j] + 1]]
         IN  sum_loop(h, c, i + 1,
                      [cells EXCEPT ![idx] = cell_add(@, h.cells[x])])

NoHistogram == [axes |-> <<>>, cells |-> <<>>]

\* project(h, c), c an iterable of axis indices
project(h, c) ==
    LET u == unique_loop(h.axes, c, 1, [d \in 0 .. Len(h.axes) - 1 |-> FALSE], <<>>)
    IN  IF u.outcome # "ok"
        THEN [outcome |-> u.outcome, at |-> u.at, result |-> NoHistogram,
              reads |-> 0, src |-> h]
        ELSE [outcome |-> "ok", at |-> 0,
              result |-> [axes |-> u.axes,
                          cells |-> sum_loop(h, c, 0, make_default_cells(u.axes))],
              reads |-> CellCount(h.axes), src |-> h]

\* mp_is_set<LN>: the call compiles only when no index repeats
IsSet(c) == \A i, j \in 1 .. Len(c) : c[i] = c[j] => i = j

\* project(h, N, Ns...), the indices compile-time constants
project_static(h, c) ==
    LET axes == [j \in 1 .. Len(c) |-> h.axes[c[j] + 1]]
    IN  [outcome |-> "ok", at |-> 0,
         result |-> [axes |-> axes,
                     cells |-> sum_loop(h, c, 0, make_default_cells(axes))],
         reads |-> CellCount(h.axes), src |-> h]

\* the axes histograms are built from
AxisPool == <<[id |-> 1, size |-> 1, uflow |-> TRUE, oflow |-> TRUE],
              [id |-> 2, size |-> 1, uflow |-> FALSE, oflow |-> TRUE],
              [id |-> 3, size |-> 2, uflow |-> FALSE, oflow |-> FALSE],
              [id |-> 4, size |-> 1, uflow |-> TRUE, oflow |-> TRUE],
              [id |-> 5, size |-> 2, uflow |-> FALSE, oflow |-> FALSE]>>

MaxRank == 3

\* the count in the i-th cell: all ones, the cell's number, or a mix
CellValue(p, i) == IF p = 0 THEN 1 ELSE IF p = 1 THEN i ELSE (i * i) % 5

Histograms ==
    {LET axes == SubSeq(AxisPool, 1, r)
     IN  [axes |-> axes,
          cells |-> [idx \in CellIndices(axes) |->
                        CellValue(p, CHOOSE i \in 0 .. CellCount(axes) - 1 :
                                         CellAt(axes, i) = idx)]]
     : r \in 1 .. MaxRank, p \in 0 .. 2}

\* index lists of at most rank axis indices of a histogram of that rank
IndexLists(rank) ==
    UNION {[1 .. n -> 0 .. rank - 1] : n \in 1 .. rank}

(***************************************************************************)
(* State                                                                   *)
(***************************************************************************)
VARIABLES
    ndebug,     \* the build: TRUE when assertions are compiled out (NDEBUG)
    accept,     \* a caller's sec_ws_accept_type
    log,        \* the calls of make_sec_ws_accept made so far, one after another
    pc,         \* concurrent calls of make_sec_ws_accept: each thread's position
    ckey,       \* ... its key argument
    cm,         \* ... the buffers m, by storage
    cdigest,    \* ... its digest
    cn,         \* ... what its base64::encode returned
    caccept,    \* ... its accept argument
    cbefore,    \* ... and what that held before the call
    kkey,       \* a caller's sec_ws_key_type
    ka,         \* the array a of the last make_sec_ws_key
    kdrawn,     \* the number of times it called the generator
    kstream,    \* what the generator returned, call after call
    hist,       \* a histogram
    hist0,      \* the same as it was built
    indices,    \* the indices of the last project
    projected   \* what the last project did

varsA == <<ndebug, accept, log>>
varsC == <<pc, ckey, cm, cdigest, cn, caccept, cbefore>>
varsK == <<kkey, ka, kdrawn, kstream>>
varsP == <<hist, hist0, indices, projected>>
vars == <<varsA, varsC, varsK, varsP>>

MaxCalls == 3
NThreads == 2
StreamLen == 5

Threads == 1 .. NThreads

\* what an accept or key buffer may hold before a call
StaleAccepts == {<<>>, Fill(88, 3), Fill(88, accept_max_size)}
StaleKeys == {<<>>, Fill(88, key_max_size_n)}

NotProjected == [version |-> "none", outcome |-> "none", at |-> 0,
                 result |-> NoHistogram, reads |-> 0]

RestA == ndebug = FALSE /\ accept = <<>> /\ log = <<>>
RestC ==
    /\ pc = [t \in Threads |-> "idle"]
    /\ ckey = [t \in Threads |-> <<>>]
    /\ cm = [t \in Threads |-> <<>>]
    /\ cdigest = [t \in Threads |-> <<>>]
    /\ cn = [t \in Threads |-> 0]
    /\ caccept = [t \in Threads |-> <<>>]
    /\ cbefore = caccept
RestK == kkey = <<>> /\ ka = <<>> /\ kdrawn = 0 /\ kstream = <<>>
RestP == hist = NoHistogram /\ hist0 = hist /\ indices = <<>> /\ projected = NotProjected

(***************************************************************************)
(* make_sec_ws_accept, call after call                                     *)
(***************************************************************************)
InitA ==
    /\ ndebug \in BOOLEAN
    /\ accept \in StaleAccepts
    /\ log = <<>>
    /\ RestC /\ RestK /\ RestP

\* the process is gone after a failed assertion, and nothing is known of it
\* after a write past the end of m
Running ==
    \A i \in 1 .. Len(log) : log[i].outcome # "assert_abort" /\ ~log[i].overrun

AcceptCall(key, ub) ==
    /\ Len(log) < MaxCalls
    /\ Running
    /\ LET r == make_sec_ws_accept(accept, key, ndebug, ub)
       IN  /\ accept' = r.accept
           /\ log' = Append(log, [key |-> key, before |-> accept,
                                  outcome |-> r.outcome, token |-> r.accept,
                                  m |-> r.m, overrun |-> r.overrun])
    /\ UNCHANGED <<ndebug, varsC, varsK, varsP>>

Next == \E key \in Keys, ub \in OverflowOutcomes : AcceptCall(key, ub)

Spec == InitA /\ [][Next]_vars

(***************************************************************************)
(* make_sec_ws_accept on several threads, statement by statement           *)
(***************************************************************************)
\* keys within the limit
ConcKeys == {RfcKey, <<>>, Fill(33, key_max_size_n)}

m_slot_static(t) == 1

\* m is a local of the call: each call has its own
m_slot(t) == t

InitC ==
    /\ pc = [t \in Threads |-> "idle"]
    /\ ckey = [t \in Threads |-> <<>>]
    /\ cm = [t \in Threads |-> <<>>]
    /\ cdigest = [t \in Threads |-> <<>>]
    /\ cn = [t \in Threads |-> 0]
    /\ caccept \in [Threads -> {<<>>, Fill(88, accept_max_size)}]
    /\ cbefore = caccept
    /\ RestA /\ RestK /\ RestP

CEnter(t, key) ==
    /\ pc[t] = "idle"
    /\ ckey' = [ckey EXCEPT ![t] = key]
    /\ pc' = [pc EXCEPT ![t] = IF key_assert(key, ndebug) THEN "entered" ELSE "failed"]
    /\ UNCHANGED <<cm, cdigest, cn, caccept, cbefore, varsA, varsK, varsP>>

CCopy(t, ub) ==
    /\ pc[t] = "entered"
    /\ LET c == m_construct(ckey[t], ub)
       IN  /\ cm' = [cm EXCEPT ![m_slot(t)] = c.val]
           /\ pc' = [pc EXCEPT ![t] = IF c.st = "ok" /\ ~c.overrun THEN "copied"
                                      ELSE "failed"]
    /\ UNCHANGED <<ckey, cdigest, cn, caccept, cbefore, varsA, varsK, varsP>>

CAppend(t, ub) ==
    /\ pc[t] = "copied"
    /\ LET a == m_append_guid(cm[m_slot(t)], ub)
       IN  /\ cm' = [cm EXCEPT ![m_slot(t)] = a.val]
           /\ pc' = [pc EXCEPT ![t] = IF a.st = "ok" /\ ~a.overrun THEN "appended"
                                      ELSE "failed"]
    /\ UNCHANGED <<ckey, cdigest, cn, caccept, cbefore, varsA, varsK, varsP>>

CHash(t) ==
    /\ pc[t] = "appended"
    /\ cdigest' = [cdigest EXCEPT ![t] = digest_of(cm[m_slot(t)])]
    /\ pc' = [pc EXCEPT ![t] = "hashed"]
    /\ UNCHANGED <<ckey, cm, cn, caccept, cbefore, varsA, varsK, varsP>>

CEncode(t) ==
    /\ pc[t] = "hashed"
    /\ LET e == accept_write(caccept[t], cdigest[t])
       IN  /\ caccept' = [caccept EXCEPT ![t] = e.data]
           /\ cn' = [cn EXCEPT ![t] = e.n]
    /\ pc' = [pc EXCEPT ![t] = "encoded"]
    /\ UNCHANGED <<ckey, cm, cdigest, cbefore, varsA, varsK, varsP>>

CResize(t) ==
    /\ pc[t] = "encoded"
    /\ caccept' = [caccept EXCEPT ![t] = static_string_resize(caccept[t], cn[t])]
    /\ pc' = [pc EXCEPT ![t] = "done"]
    /\ UNCHANGED <<ckey, cm, cdigest, cn, cbefore, varsA, varsK, varsP>>

NextC ==
    \E t \in Threads :
        \/ \E key \in ConcKeys : CEnter(t, key)
        \/ \E ub \in OverflowOutcomes : CCopy(t, ub)
        \/ \E ub \in OverflowOutcomes : CAppend(t, ub)
        \/ CHash(t)
        \/ CEncode(t)
        \/ CResize(t)

SpecConc == InitC /\ [][NextC]_vars

(***************************************************************************)
(* make_sec_ws_key                                                         *)
(***************************************************************************)
InitK ==
    /\ kkey \in StaleKeys
    /\ ka = <<>>
    /\ kdrawn = 0
    /\ kstream = <<>>
    /\ RestA /\ RestC /\ RestP

\* one key is made for a connection attempt
KeyCall(g) ==
    /\ kstream = <<>>
    /\ LET r == make_sec_ws_key(kkey, g)
       IN  /\ kkey' = r.key
           /\ ka' = r.a
           /\ kdrawn' = r.drawn
    /\ kstream' = g
    /\ UNCHANGED <<varsA, varsC, varsP>>

NextK == \E g \in [1 .. StreamLen -> RngValues] : KeyCall(g)

SpecKey == InitK /\ [][NextK]_vars

(***************************************************************************)
(* project                                                                 *)
(***************************************************************************)
InitP ==
    /\ hist \in Histograms
    /\ hist0 = hist
    /\ indices = <<>>
    /\ projected = NotProjected
    /\ RestA /\ RestC /\ RestK

\* a histogram is projected once
Projected(version, c, r) ==
    /\ projected.version = "none"
    /\ hist' = r.src
    /\ indices' = c
    /\ projected' = [version |-> version, outcome |-> r.outcome, at |-> r.at,
                     result |-> r.result, reads |-> r.reads]
    /\ UNCHANGED <<hist0, varsA, varsC, varsK>>

ProjectIterable(c) == Projected("iterable", c, project(hist, c))

ProjectStatic(c) == IsSet(c) /\ Projected("static", c, project_static(hist, c))

NextP ==
    \/ \E c \in IndexLists(Len(hist.axes)) : ProjectIterable(c)
    \/ \E c \in IndexLists(Len(hist.axes)) : ProjectStatic(c)

SpecProject == InitP /\ [][NextP]_vars

(***************************************************************************)
(* Properties                                                              *)
(***************************************************************************)
Calls == 1 .. Len(log)

WithinLimit(i) == Len(log[i].key) <= key_max_size_n

\* C1: a call with a key of at most max_size_n characters returns
\* Base64(SHA-1(key followed by the GUID)); the RFC 6455 key
\* "dGhlIHNhbXBsZSBub25jZQ==" gives "s3pPLMBiTxaQ9kYGzzhZRbK+xOo="
C1_AcceptIsBase64OfSha1 ==
    \A i \in Calls :
        WithinLimit(i) =>
            /\ log[i].outcome = "ok"
            /\ log[i].token = base64_encode(digest_of(log[i].key \o GUID))
            /\ log[i].key = RfcKey => log[i].token = RfcAccept

C1_Witness ==
    \E i \in Calls :
        log[i].key = RfcKey /\ log[i].outcome = "ok" /\ log[i].token = RfcAccept

\* C2: two calls with the same key (within the limit) end alike and return
\* the same token, whatever the accept buffer held and whatever was called
\* before or between them
C2_Deterministic ==
    \A i, j \in Calls :
        (WithinLimit(i) /\ log[i].key = log[j].key) =>
            log[i].outcome = log[j].outcome /\ log[i].token = log[j].token

C2_Witness ==
    \E i, j, k \in Calls :
        /\ i < k /\ k < j
        /\ log[i].key = log[j].key /\ log[k].key # log[i].key
        /\ log[i].before # log[j].before
        /\ log[i].outcome = "ok" /\ log[j].outcome = "ok"
        /\ log[i].token = log[j].token

\* C4: a call with a key longer than max_size_n fails: it returns no token,
\* hashes no truncated text and writes nothing past the end of m
C4_OversizedKeyFails ==
    \A i \in Calls :
        ~WithinLimit(i) =>
            /\ log[i].outcome \in {"assert_abort", "length_error"}
            /\ ~log[i].overrun

\* C5: a call with a key of 0 .. max_size_n characters, base64 or not,
\* completes; m then holds key length + 36 characters, within its capacity
\* of max_size_n + 36, and nothing was cut or written past its end
C5_BoundedKeyFits ==
    \A i \in Calls :
        WithinLimit(i) =>
            /\ log[i].outcome = "ok"
            /\ log[i].m = log[i].key \o GUID
            /\ Len(log[i].m) = Len(log[i].key) + 36
            /\ Len(log[i].m) <= key_max_size_n + 36
            /\ ~log[i].overrun

C5_Witness ==
    \E i \in Calls :
        /\ log[i].key = Fill(33, key_max_size_n)
        /\ log[i].outcome = "ok"
        /\ Len(log[i].m) = 60

\* C6: the token of a call with a key within the limit is 28 characters
\* long, the base64 length of 20 octets, whatever the key
C6_AcceptLength ==
    \A i \in Calls :
        WithinLimit(i) =>
            Len(log[i].token) = 28 /\ Len(log[i].token) = encoded_size(20)

C6_Witness ==
    \E i, j \in Calls :
        /\ Len(log[i].key) = 0 /\ Len(log[j].key) = key_max_size_n
        /\ log[i].outcome = "ok" /\ log[j].outcome = "ok"
        /\ Len(log[i].token) = 28 /\ Len(log[j].token) = 28
        /\ log[i].token # log[j].token

\* C7: under every interleaving, each statement of each concurrent call
\* finds what it finds when the call runs alone, and the call returns the
\* token it returns alone
C7_ConcurrentIndependent ==
    \A t \in Threads :
        /\ pc[t] # "failed"
        /\ pc[t] = "copied" => cm[m_slot(t)] = ckey[t]
        /\ pc[t] = "appended" => cm[m_slot(t)] = ckey[t] \o GUID
        /\ pc[t] \in {"hashed", "encoded"} => cdigest[t] = digest_of(ckey[t] \o GUID)
        /\ pc[t] = "done" =>
              caccept[t] = make_sec_ws_accept(cbefore[t], ckey[t], ndebug,
                                              "length_error").accept

C7_Witness ==
    /\ \A t \in Threads : pc[t] = "done"
    /\ \E t, u \in Threads : ckey[t] # ckey[u] /\ caccept[t] # caccept[u]
    /\ \E t \in Threads : caccept[t] = RfcAccept

KeyMade == kstream # <<>>

\* C3: the key is 24 characters long, and decoding it from base64 succeeds
\* and gives back the 16 octets that were encoded
C3_KeyRoundTrip ==
    KeyMade =>
        /\ Len(kkey) = 24
        /\ Len(ka) = 16
        /\ base64_decode(kkey) = ka

C3_Witness ==
    /\ KeyMade
    /\ kstream[1] = <<65535, 65535>> /\ kstream[2] = <<258, 772>>
    /\ Len(base64_decode(kkey)) = 16

\* C10: a call draws 4 values, and octets 4k .. 4k+3 of a are the k-th
\* value, least significant octet first
C10_FourDrawsLittleEndian ==
    KeyMade =>
        /\ kdrawn = 4
        /\ Len(ka) = 16
        /\ \A i \in 1 .. 16 : ka[i] \in Byte
        /\ \A k \in 0 .. 3 :
              /\ ka[4 * k + 1] + (256 * ka[4 * k + 2]) = kstream[k + 1][2]
              /\ ka[4 * k + 3] + (256 * ka[4 * k + 4]) = kstream[k + 1][1]

C10_Witness ==
    /\ KeyMade
    /\ kdrawn = 4
    /\ kstream[2] = <<258, 772>>
    /\ SubSeq(ka, 5, 8) = <<4, 3, 2, 1>>

RECURSIVE SumOver(_, _)
\* the sum of f over the numbers in S
SumOver(S, f) ==
    IF S = {} THEN 0
    ELSE LET x == CHOOSE y \in S : TRUE IN f[x] + SumOver(S \ {x}, f)

\* C8: project with indices that do not repeat returns the listed axes in
\* the listed order, each cell the sum of the source cells that have its
\* indices on the kept axes, and leaves the source as it was
C8_ProjectSums ==
    (projected.version # "none" /\ IsSet(indices)) =>
        LET kept == [j \in 1 .. Len(indices) |-> hist0.axes[indices[j] + 1]]
            \* the source's cells, numbered, and their counts
            source == [i \in 0 .. CellCount(hist0.axes) - 1 |-> CellAt(hist0.axes, i)]
            count == [i \in DOMAIN source |-> hist0.cells[source[i]]]
        IN  /\ projected.outcome = "ok"
            /\ projected.result.axes = kept
            /\ DOMAIN projected.result.cells = CellIndices(kept)
            /\ {source[i] : i \in DOMAIN source} = CellIndices(hist0.axes)
            /\ \A idx \in CellIndices(kept) :
                  projected.result.cells[idx] =
                      SumOver({i \in DOMAIN source :
                                  \A j \in 1 .. Len(indices) :
                                      source[i][indices[j] + 1] = idx[j]},
                              count)
            /\ hist = hist0

C8_Witness ==
    /\ projected.version = "iterable" /\ projected.outcome = "ok"
    /\ Len(hist0.axes) = 3 /\ indices = <<2, 0>>
    /\ projected.result.axes = <<AxisPool[3], AxisPool[1]>>
    /\ \E idx \in DOMAIN projected.result.cells : projected.result.cells[idx] > 2

Repeats(c, j) == \E i \in 1 .. j - 1 : c[i] = c[j]

\* C9: the iterable version throws invalid_argument at the first index that
\* repeats an earlier one, having read no cell and with no histogram
\* returned; it never throws it for indices that do not repeat
C9_RepeatsRejected ==
    projected.version = "iterable" =>
        IF IsSet(indices)
        THEN projected.outcome # "invalid_argument"
        ELSE /\ projected.outcome = "invalid_argument"
             /\ Repeats(indices, projected.at)
             /\ \A j \in 1 .. projected.at - 1 : ~Repeats(indices, j)
             /\ projected.reads = 0
             /\ projected.result = NoHistogram

C9_Witness ==
    /\ projected.version = "iterable"
    /\ indices = <<1, 0, 1>>
    /\ projected.outcome = "invalid_argument" /\ projected.at = 3
====
